---- MODULE Spec2Model ----
(***************************************************************************)
(* Verification model of UtilLib: TaskGraphManager (src/TaskGraph.h),      *)
(* JobSystem (src/JobSystem.h), Function (src/Function.h),                 *)
(* EventDispatcher (src/TaskGraph.h), SharedPointer (src/SharedPointer.h)  *)
(* and Task (src/TaskGraph.h).                                             *)
(*                                                                         *)
(* Task identifiers are the 64-bit hashes of task names; the model draws   *)
(* them from 1..NumIds.  Identifier 0 stands for "no task" (a null node).  *)
(***************************************************************************)
EXTENDS Integers, Sequences, FiniteSets, TLC

(***************************************************************************)
(* Bounds                                                                  *)
(***************************************************************************)
NumIds == 3
MaxDeps == 2
MaxEdges == 3
NumData == 1
MaxOps == 4
MaxLateTasks == 1
NumWorkers == 2
MaxParOps == 2
NumJobs == 3
NumFunctions == 2
NumInstances == 2
NumMethods == 2
NumEvents == 2
MaxSubscribers == 3
MaxQueued == 2
MaxReactions == 2
NumHandles == 3
NumObjects == 2
NumNames == 3

Ids == 1..NumIds
DataValues == 1..NumData
Workers == 1..NumWorkers
Jobs == 1..NumJobs
MainThread == NumWorkers + 1

VARIABLES
    mTasks,
    mGraph,
    mTopNodes,
    mExecutedTasks,
    crashed,
    buildResult,
    hist,
    lateTasks,
    trace,
    runStart,
    todo,
    stack,
    started,
    finished,
    mJobs,
    mMutex,
    mNumPendingJobs,
    mRunning,
    workerPc,
    jobData,
    jobState,
    mainPc,
    waitingFor,
    atStop,
    executions,
    dequeuedBy,
    callable,
    lastBind,
    prevKind,
    called,
    dispatched,
    mEventSubscribers,
    mEventQueue,
    invoked,
    lastOp,
    reentry,
    handles,
    mData,
    heap,
    lastAssign,
    byName,
    byHash,
    lastAdd

tgVars == <<mTasks, mGraph, mTopNodes, mExecutedTasks, crashed, buildResult, hist,
            lateTasks>>

seqVars == <<trace, runStart>>

parVars == <<todo, stack, started, finished>>

jsVars == <<mJobs, mMutex, mNumPendingJobs, mRunning, workerPc, jobData, jobState,
            mainPc, waitingFor, atStop, executions, dequeuedBy>>

fnVars == <<callable, lastBind, prevKind, called, dispatched>>

evVars == <<mEventSubscribers, mEventQueue, invoked, lastOp, reentry>>

spVars == <<handles, mData, heap, lastAssign>>

tkVars == <<byName, byHash, lastAdd>>

vars == <<tgVars, seqVars, parVars, jsVars, fnVars, evVars, spVars, tkVars>>

(***************************************************************************)
(* Helpers on sets and sequences                                           *)
(***************************************************************************)
Range(s) == {s[i] : i \in DOMAIN s}

RECURSIVE Ascending(_)
Ascending(S) ==
    IF S = {} THEN <<>>
    ELSE LET m == CHOOSE x \in S : \A y \in S : x <= y
         IN <<m>> \o Ascending(S \ {m})

Reverse(s) == [i \in DOMAIN s |-> s[Len(s) + 1 - i]]

(* The iteration order of std::unordered_map and std::unordered_set is      *)
(* unspecified: an iteration visits the keys in ascending or in descending  *)
(* order, chosen anew for every iteration.                                  *)
IterationOrders(S) == {Ascending(S), Reverse(Ascending(S))}

RECURSIVE SumOver(_, _)
SumOver(f, S) ==
    IF S = {} THEN 0
    ELSE LET x == CHOOSE y \in S : TRUE IN f[x] + SumOver(f, S \ {x})

CountIn(s, x) == Cardinality({i \in DOMAIN s : s[i] = x})

Last(s) == s[Len(s)]

(***************************************************************************)
(* Task                                                                    *)
(***************************************************************************)
Task(hash, data, deps) == [mHash |-> hash, mData |-> data, mDependencies |-> deps]

DepSets == {D \in SUBSET Ids : Cardinality(D) <= MaxDeps}

TaskValues == {Task(h, d, D) : h \in Ids, d \in DataValues, D \in DepSets}

EdgeCount(tasks) == SumOver([h \in DOMAIN tasks |-> Cardinality(tasks[h].mDependencies)], DOMAIN tasks)

(***************************************************************************)
(* TaskGraphManager: task table, node table, entry nodes                   *)
(***************************************************************************)
NullNode == [LeafCount |-> 0, TaskHash |-> 0, Data |-> 0, Leaves |-> <<>>]

MakeNodeWithoutLeaves(task, leaves) ==
    [LeafCount |-> 0, TaskHash |-> task.mHash, Data |-> task.mData, Leaves |-> <<>>]

MakeNode(task, leaves) ==
    [LeafCount |-> Cardinality(task.mDependencies), TaskHash |-> task.mHash,
     Data |-> task.mData, Leaves |-> leaves]

Emplace(map, key, value) ==
    IF key \in DOMAIN map THEN map
    ELSE [k \in DOMAIN map \cup {key} |-> IF k = key THEN value ELSE map[k]]

Quiescent == todo = <<>> /\ \A t \in Workers : stack[t] = <<>>

TgInit ==
    /\ mTasks = <<>>
    /\ mGraph = <<>>
    /\ mTopNodes = <<>>
    /\ mExecutedTasks = {}
    /\ crashed = FALSE
    /\ buildResult = "none"
    /\ hist = <<>>
    /\ lateTasks = 0
    /\ trace = <<>>
    /\ runStart = 0
    /\ todo = <<>>
    /\ stack = [t \in Workers |-> <<>>]
    /\ started = [h \in Ids |-> 0]
    /\ finished = [t \in Workers |-> [h \in Ids |-> 0]]

AddTaskCompiling(task) ==
    /\ ~crashed
    /\ Quiescent
    /\ EdgeCount(Emplace(mTasks, task.mHash, task)) <= MaxEdges
    /\ hist # <<>> => lateTasks < MaxLateTasks
    /\ mTasks' = Emplace(mTasks, task.mHash, task)
    /\ mGraph' = Emplace(mGraph, task.mHash, MakeNodeWithoutLeaves(task, <<>>))
    /\ mTopNodes' = Append(mTopNodes, task.mHash)
    /\ lateTasks' = IF hist = <<>> THEN 0 ELSE lateTasks + 1
    /\ UNCHANGED <<mExecutedTasks, crashed, buildResult, hist>>
    /\ UNCHANGED <<seqVars, parVars, jsVars, fnVars, evVars, spVars, tkVars>>

AddTask(task) ==
    /\ ~crashed
    /\ Quiescent
    /\ EdgeCount(Emplace(mTasks, task.mHash, task)) <= MaxEdges
    /\ hist # <<>> => lateTasks < MaxLateTasks
    /\ mTasks' = Emplace(mTasks, task.mHash, task)
    /\ lateTasks' = IF hist = <<>> THEN 0 ELSE lateTasks + 1
    /\ UNCHANGED <<mGraph, mTopNodes, mExecutedTasks, crashed, buildResult, hist>>
    /\ UNCHANGED <<seqVars, parVars, jsVars, fnVars, evVars, spVars, tkVars>>

AllDependencies(tasks) == UNION {tasks[h].mDependencies : h \in DOMAIN tasks}

IsTopNodeOrLowest(hash, allDependencies) ==
    hash \notin allDependencies \/ \A d \in allDependencies : hash <= d

IsTopNodeAlways(hash, allDependencies) == TRUE

IsTopNode(hash, allDependencies) == hash \notin allDependencies

(* One leaf order per node that the build allocates. *)
RECURSIVE LeafOrders(_, _)
LeafOrders(tasks, S) ==
    IF S = {} THEN {<<>>}
    ELSE LET h == CHOOSE x \in S : TRUE
         IN {[k \in DOMAIN rest \cup {h} |-> IF k = h THEN p ELSE rest[k]] :
                rest \in LeafOrders(tasks, S \ {h}), p \in IterationOrders(tasks[h].mDependencies)}

CycleCheckThrowing(graph) ==
    IF \E h \in DOMAIN graph : h \in Range(graph[h].Leaves) THEN "CycleDetected" ELSE "ok"

(* The debug-only check looks for a node that lists itself as a leaf; on a *)
(* hit it constructs a std::runtime_error, does not throw it, and returns. *)
(* With or without NDEBUG the build reports nothing.                       *)
CycleCheck(graph) == "ok"

(* emplace keeps the node of a task that an earlier build compiled, and    *)
(* mTopNodes and mExecutedTasks are never cleared.  The debug-only cycle   *)
(* check constructs a std::runtime_error without throwing it and returns:  *)
(* it changes no state and reports nothing.                                *)
BuildGraph ==
    /\ ~crashed
    /\ Quiescent
    /\ Len(hist) < MaxOps
    /\ LET fresh == DOMAIN mTasks \ DOMAIN mGraph
           allDependencies == AllDependencies(mTasks)
       IN \E leaves \in LeafOrders(mTasks, fresh) :
            LET graph == [h \in DOMAIN mGraph \cup fresh |->
                               IF h \in fresh THEN MakeNode(mTasks[h], leaves[h])
                               ELSE mGraph[h]]
                top == {h \in DOMAIN graph : IsTopNode(h, allDependencies)}
            IN /\ mGraph' = graph
               /\ \E order \in IterationOrders(top) : mTopNodes' = mTopNodes \o order
               /\ buildResult' = CycleCheck(graph)
    /\ hist' = Append(hist, "Build")
    /\ UNCHANGED <<mTasks, mExecutedTasks, crashed, lateTasks>>
    /\ UNCHANGED <<seqVars, parVars, jsVars, fnVars, evVars, spVars, tkVars>>

(***************************************************************************)
(* Sequential execution: ExecuteGraph runs every ExecuteNode to completion *)
(* on the calling thread.  A run state is the part of the manager that a   *)
(* run reads and writes, plus the record of the tasks it has invoked.      *)
(***************************************************************************)
StackLimit == NumIds + 1

IsExecutedNever(executed, leaf) == FALSE

IsExecutedAlways(executed, leaf) == TRUE

IsExecuted(executed, leaf) == leaf \in executed

RunState(graph, executed, tr, crash) ==
    [graph |-> graph, executed |-> executed, trace |-> tr, crashed |-> crash]

ExecuteTaskClearing(s, hash) ==
    [s EXCEPT !.trace = Append(@, hash), !.executed = {hash}]

ExecuteTask(s, hash) ==
    [s EXCEPT !.trace = Append(@, hash), !.executed = @ \cup {hash}]

RECURSIVE ExecuteNode(_, _, _)
RECURSIVE ExecuteLeaves(_, _, _, _)

ExecuteLeavesRevisiting(s, node, i, depth) ==
    IF s.crashed \/ i > s.graph[node].LeafCount THEN s
    ELSE LET leaf == s.graph[node].Leaves[i]
         IN IF IsExecuted(s.executed, leaf)
            THEN ExecuteLeaves(s, node, i + 1, depth)
            ELSE IF leaf \notin DOMAIN s.graph
            THEN [s EXCEPT !.graph = Emplace(@, leaf, NullNode), !.crashed = TRUE]
            ELSE ExecuteLeaves(ExecuteNode(s, node, depth + 1), node, i + 1, depth)

ExecuteLeaves(s, node, i, depth) ==
    IF s.crashed \/ i > s.graph[node].LeafCount THEN s
    ELSE LET leaf == s.graph[node].Leaves[i]
         IN IF IsExecuted(s.executed, leaf)
            THEN ExecuteLeaves(s, node, i + 1, depth)
            ELSE IF leaf \notin DOMAIN s.graph
            THEN [s EXCEPT !.graph = Emplace(@, leaf, NullNode), !.crashed = TRUE]
            ELSE ExecuteLeaves(ExecuteNode(s, leaf, depth + 1), node, i + 1, depth)

ExecuteNode(s, node, depth) ==
    IF depth > StackLimit THEN [s EXCEPT !.crashed = TRUE]
    ELSE LET after == ExecuteLeaves(s, node, 1, depth)
         IN IF after.crashed THEN after
            ELSE ExecuteTask(after, s.graph[node].TaskHash)

RECURSIVE ExecuteTopNodes(_, _)
ExecuteTopNodes(s, nodes) ==
    IF nodes = <<>> \/ s.crashed THEN s
    ELSE ExecuteTopNodes(ExecuteNode(s, Head(nodes), 1), Tail(nodes))

ExecuteGraph ==
    /\ ~crashed
    /\ Quiescent
    /\ Len(hist) < MaxOps
    /\ LET s == ExecuteTopNodes(RunState(mGraph, mExecutedTasks, trace, FALSE), mTopNodes)
       IN /\ mGraph' = s.graph
          /\ mExecutedTasks' = s.executed
          /\ trace' = s.trace
          /\ crashed' = s.crashed
    /\ runStart' = Len(trace)
    /\ hist' = Append(hist, "Run")
    /\ UNCHANGED <<mTasks, mTopNodes, buildResult, lateTasks>>
    /\ UNCHANGED <<parVars, jsVars, fnVars, evVars, spVars, tkVars>>

(***************************************************************************)
(* Parallel execution.  The repository has no parallel entry point: the    *)
(* specification's RunParallel hands every entry node's ExecuteNode visit  *)
(* to a pool worker.  The visits themselves are the code's ExecuteNode,    *)
(* taken one shared-memory access at a time: a worker's stack holds one    *)
(* frame per active ExecuteNode call.                                      *)
(***************************************************************************)
RunParallel ==
    /\ ~crashed
    /\ Quiescent
    /\ Len(hist) < MaxParOps
    /\ todo' = mTopNodes
    /\ hist' = Append(hist, "Par")
    /\ UNCHANGED <<mTasks, mGraph, mTopNodes, mExecutedTasks, crashed, buildResult, lateTasks>>
    /\ UNCHANGED <<stack, started, finished>>
    /\ UNCHANGED <<seqVars, jsVars, fnVars, evVars, spVars, tkVars>>

Frame(hash) == [node |-> hash, i |-> 0, pc |-> "leaves"]

Top(t) == stack[t][Len(stack[t])]

SetTop(t, frame) == [stack EXCEPT ![t] = [@ EXCEPT ![Len(@)] = frame]]

At(t, pc) == stack[t] # <<>> /\ Top(t).pc = pc

(* A worker takes the next entry-node visit from the head of the pool's queue. *)
NextNode(t) ==
    /\ ~crashed
    /\ stack[t] = <<>>
    /\ todo # <<>>
    /\ stack' = [stack EXCEPT ![t] = <<Frame(Head(todo))>>]
    /\ todo' = Tail(todo)
    /\ UNCHANGED <<tgVars, seqVars, jsVars, fnVars, evVars, spVars, tkVars, started, finished>>

(* mExecutedTasks is a plain std::unordered_set: a find that overlaps      *)
(* another thread's emplace is a data race.  The racing find may miss a    *)
(* key that is present, and either racing access may fault.                *)
Racing(t) == \E u \in Workers \ {t} : At(u, "mark")

FindResults(t, leaf) ==
    {IsExecuted(mExecutedTasks, leaf)} \cup (IF Racing(t) THEN {FALSE} ELSE {})

VisitLeaf(t) ==
    /\ ~crashed
    /\ At(t, "leaves")
    /\ Top(t).i < mGraph[Top(t).node].LeafCount
    /\ LET f == Top(t)
           leaf == mGraph[f.node].Leaves[f.i + 1]
           advanced == SetTop(t, [f EXCEPT !.i = f.i + 1])
       IN \E found \in FindResults(t, leaf) :
          IF found
          THEN /\ stack' = advanced
               /\ UNCHANGED <<mGraph, crashed>>
          ELSE IF leaf \notin DOMAIN mGraph
          THEN /\ mGraph' = Emplace(mGraph, leaf, NullNode)
               /\ crashed' = TRUE
               /\ UNCHANGED stack
          ELSE IF Len(stack[t]) >= StackLimit
          THEN /\ crashed' = TRUE
               /\ UNCHANGED <<mGraph, stack>>
          ELSE /\ stack' = [advanced EXCEPT ![t] = Append(@, Frame(leaf))]
               /\ UNCHANGED <<mGraph, crashed>>
    /\ UNCHANGED <<mTasks, mTopNodes, mExecutedTasks, buildResult, hist, lateTasks>>
    /\ UNCHANGED <<todo, started, finished>>
    /\ UNCHANGED <<seqVars, jsVars, fnVars, evVars, spVars, tkVars>>

StartTaskMarkingFirst(t) ==
    /\ ~crashed
    /\ At(t, "leaves")
    /\ Top(t).i = mGraph[Top(t).node].LeafCount
    /\ stack' = SetTop(t, [Top(t) EXCEPT !.pc = "run"])
    /\ started' = [started EXCEPT ![mGraph[Top(t).node].TaskHash] = @ + 1]
    /\ mExecutedTasks' = mExecutedTasks \cup {mGraph[Top(t).node].TaskHash}
    /\ UNCHANGED <<mTasks, mGraph, mTopNodes, crashed, buildResult, hist, lateTasks>>
    /\ UNCHANGED <<todo, finished>>
    /\ UNCHANGED <<seqVars, jsVars, fnVars, evVars, spVars, tkVars>>

StartTask(t) ==
    /\ ~crashed
    /\ At(t, "leaves")
    /\ Top(t).i = mGraph[Top(t).node].LeafCount
    /\ stack' = SetTop(t, [Top(t) EXCEPT !.pc = "run"])
    /\ started' = [started EXCEPT ![mGraph[Top(t).node].TaskHash] = @ + 1]
    /\ UNCHANGED <<tgVars, seqVars, jsVars, fnVars, evVars, spVars, tkVars, todo, finished>>

FinishTask(t) ==
    /\ ~crashed
    /\ At(t, "run")
    /\ stack' = SetTop(t, [Top(t) EXCEPT !.pc = "mark"])
    /\ finished' = [finished EXCEPT ![t][mGraph[Top(t).node].TaskHash] = @ + 1]
    /\ UNCHANGED <<tgVars, seqVars, jsVars, fnVars, evVars, spVars, tkVars, todo, started>>

MarkExecuted(t) ==
    /\ ~crashed
    /\ At(t, "mark")
    /\ mExecutedTasks' = mExecutedTasks \cup {mGraph[Top(t).node].TaskHash}
    /\ stack' = [stack EXCEPT ![t] = SubSeq(@, 1, Len(@) - 1)]
    /\ UNCHANGED <<mTasks, mGraph, mTopNodes, crashed, buildResult, hist, lateTasks>>
    /\ UNCHANGED <<todo, started, finished>>
    /\ UNCHANGED <<seqVars, jsVars, fnVars, evVars, spVars, tkVars>>

RaceFault(t) ==
    /\ ~crashed
    /\ At(t, "mark")
    /\ \E u \in Workers \ {t} :
          \/ At(u, "mark")
          \/ At(u, "leaves") /\ Top(u).i < mGraph[Top(u).node].LeafCount
    /\ crashed' = TRUE
    /\ UNCHANGED <<mTasks, mGraph, mTopNodes, mExecutedTasks, buildResult, hist, lateTasks>>
    /\ UNCHANGED <<seqVars, parVars, jsVars, fnVars, evVars, spVars, tkVars>>

(***************************************************************************)
(* JobSystem.  The caller thread adds jobs, waits and destroys the pool;   *)
(* each worker runs the loop of the constructor's lambda.  mNumPendingJobs *)
(* is a value-initialised std::atomic (C++20): it starts at zero.          *)
(***************************************************************************)
NoJob == <<>>

JsInit ==
    /\ mJobs = <<>>
    /\ mMutex = {}
    /\ mNumPendingJobs = 0
    /\ mRunning = TRUE
    /\ workerPc = [t \in Workers |-> "while"]
    /\ jobData = [t \in Workers |-> NoJob]
    /\ jobState = [j \in Jobs |-> "new"]
    /\ mainPc = "idle"
    /\ waitingFor = {}
    /\ atStop = [j \in Jobs |-> "new"]
    /\ executions = [j \in Jobs |-> 0]
    /\ dequeuedBy = [j \in Jobs |-> {}]

MainFree == mainPc \in {"idle", "waited"}

Submitted == {j \in Jobs : jobState[j] # "new"}

WorkerWhileIgnoringStop(t) ==
    /\ workerPc[t] = "while"
    /\ workerPc' = [workerPc EXCEPT ![t] = "lock"]
    /\ UNCHANGED <<mJobs, mMutex, mNumPendingJobs, mRunning, jobData, jobState, mainPc,
                   waitingFor, atStop, executions, dequeuedBy>>
    /\ UNCHANGED <<tgVars, seqVars, parVars, fnVars, evVars, spVars, tkVars>>

WorkerWhile(t) ==
    /\ workerPc[t] = "while"
    /\ workerPc' = [workerPc EXCEPT ![t] = IF mRunning THEN "lock" ELSE "exited"]
    /\ UNCHANGED <<mJobs, mMutex, mNumPendingJobs, mRunning, jobData, jobState, mainPc, waitingFor,
                   atStop, executions, dequeuedBy>>
    /\ UNCHANGED <<tgVars, seqVars, parVars, fnVars, evVars, spVars, tkVars>>

WorkerLockUnguarded(t) ==
    /\ workerPc[t] = "lock"
    /\ mMutex' = mMutex \cup {t}
    /\ workerPc' = [workerPc EXCEPT ![t] = "locked"]
    /\ UNCHANGED <<mJobs, mNumPendingJobs, mRunning, jobData, jobState, mainPc, waitingFor,
                   atStop, executions, dequeuedBy>>
    /\ UNCHANGED <<tgVars, seqVars, parVars, fnVars, evVars, spVars, tkVars>>

WorkerLock(t) ==
    /\ workerPc[t] = "lock"
    /\ mMutex = {}
    /\ mMutex' = {t}
    /\ workerPc' = [workerPc EXCEPT ![t] = "locked"]
    /\ UNCHANGED <<mJobs, mNumPendingJobs, mRunning, jobData, jobState, mainPc, waitingFor,
                   atStop, executions, dequeuedBy>>
    /\ UNCHANGED <<tgVars, seqVars, parVars, fnVars, evVars, spVars, tkVars>>

DequeueBack(q) == [job |-> q[Len(q)], rest |-> SubSeq(q, 1, Len(q) - 1)]

(* front() then pop_front(): the oldest queued job leaves the deque. *)
Dequeue(q) == [job |-> Head(q), rest |-> Tail(q)]

WorkerUnlockAfterJob(t) == mMutex

(* The lock_guard's scope closes before the job is called. *)
WorkerUnlock(t) == mMutex \ {t}

AfterEmptyQueueBreak == "exited"

(* continue: an empty queue sends the worker back to the loop test. *)
AfterEmptyQueue == "while"

(* Inside the critical section: the empty test, the increment of the       *)
(* pending count and the copy of the front job.                            *)
WorkerFrontCountingFirst(t) ==
    /\ workerPc[t] = "locked"
    /\ mNumPendingJobs' = mNumPendingJobs + 1
    /\ IF mJobs = <<>>
       THEN /\ mMutex' = WorkerUnlock(t)
            /\ workerPc' = [workerPc EXCEPT ![t] = AfterEmptyQueue]
            /\ UNCHANGED jobData
       ELSE /\ jobData' = [jobData EXCEPT ![t] = <<Dequeue(mJobs).job>>]
            /\ workerPc' = [workerPc EXCEPT ![t] = "pop"]
            /\ UNCHANGED mMutex
    /\ UNCHANGED <<mJobs, mRunning, jobState, mainPc, waitingFor, atStop, executions,
                   dequeuedBy>>
    /\ UNCHANGED <<tgVars, seqVars, parVars, fnVars, evVars, spVars, tkVars>>

WorkerFront(t) ==
    /\ workerPc[t] = "locked"
    /\ IF mJobs = <<>>
       THEN /\ mMutex' = WorkerUnlock(t)
            /\ workerPc' = [workerPc EXCEPT ![t] = AfterEmptyQueue]
            /\ UNCHANGED <<mNumPendingJobs, jobData>>
       ELSE /\ mNumPendingJobs' = mNumPendingJobs + 1
            /\ jobData' = [jobData EXCEPT ![t] = <<Dequeue(mJobs).job>>]
            /\ workerPc' = [workerPc EXCEPT ![t] = "pop"]
            /\ UNCHANGED mMutex
    /\ UNCHANGED <<mJobs, mRunning, jobState, mainPc, waitingFor, atStop, executions, dequeuedBy>>
    /\ UNCHANGED <<tgVars, seqVars, parVars, fnVars, evVars, spVars, tkVars>>

(* pop_front(), then the end of the critical section. *)
WorkerPop(t) ==
    /\ workerPc[t] = "pop"
    /\ mJobs' = Dequeue(mJobs).rest
    /\ jobState' = [jobState EXCEPT ![jobData[t][1]] = "running"]
    /\ mMutex' = WorkerUnlock(t)
    /\ workerPc' = [workerPc EXCEPT ![t] = "run"]
    /\ dequeuedBy' = [dequeuedBy EXCEPT ![jobData[t][1]] = @ \cup {t}]
    /\ UNCHANGED <<mNumPendingJobs, mRunning, jobData, mainPc, waitingFor, atStop, executions>>
    /\ UNCHANGED <<tgVars, seqVars, parVars, fnVars, evVars, spVars, tkVars>>

WorkerRun(t) ==
    /\ workerPc[t] = "run"
    /\ jobState' = [jobState EXCEPT ![jobData[t][1]] = "done"]
    /\ executions' = [executions EXCEPT ![jobData[t][1]] = @ + 1]
    /\ workerPc' = [workerPc EXCEPT ![t] = "dec"]
    /\ UNCHANGED <<mJobs, mMutex, mNumPendingJobs, mRunning, jobData, mainPc, waitingFor,
                   atStop, dequeuedBy>>
    /\ UNCHANGED <<tgVars, seqVars, parVars, fnVars, evVars, spVars, tkVars>>

WorkerDecrementSkipped(t) ==
    /\ workerPc[t] = "dec"
    /\ workerPc' = [workerPc EXCEPT ![t] = "while"]
    /\ UNCHANGED <<mJobs, mMutex, mNumPendingJobs, mRunning, jobData, jobState, mainPc,
                   waitingFor, atStop, executions, dequeuedBy>>
    /\ UNCHANGED <<tgVars, seqVars, parVars, fnVars, evVars, spVars, tkVars>>

WorkerDecrement(t) ==
    /\ workerPc[t] = "dec"
    /\ mNumPendingJobs' = mNumPendingJobs - 1
    /\ workerPc' = [workerPc EXCEPT ![t] = "while"]
    /\ UNCHANGED <<mJobs, mMutex, mRunning, jobData, jobState, mainPc, waitingFor,
                   atStop, executions, dequeuedBy>>
    /\ UNCHANGED <<tgVars, seqVars, parVars, fnVars, evVars, spVars, tkVars>>

AddJobLock ==
    /\ MainFree
    /\ mRunning
    /\ Submitted # Jobs
    /\ mMutex = {}
    /\ mMutex' = {MainThread}
    /\ mainPc' = "adding"
    /\ UNCHANGED <<mJobs, mNumPendingJobs, mRunning, workerPc, jobData, jobState, waitingFor,
                   atStop, executions, dequeuedBy>>
    /\ UNCHANGED <<tgVars, seqVars, parVars, fnVars, evVars, spVars, tkVars>>

AddJob ==
    /\ mainPc = "adding"
    /\ LET job == Cardinality(Submitted) + 1
       IN /\ mJobs' = Append(mJobs, job)
          /\ jobState' = [jobState EXCEPT ![job] = "queued"]
    /\ mMutex' = {}
    /\ mainPc' = "idle"
    /\ UNCHANGED <<mNumPendingJobs, mRunning, workerPc, jobData, waitingFor,
                   atStop, executions, dequeuedBy>>
    /\ UNCHANGED <<tgVars, seqVars, parVars, fnVars, evVars, spVars, tkVars>>

WaitCall ==
    /\ MainFree
    /\ mRunning
    /\ mainPc' = "waiting"
    /\ waitingFor' = Submitted
    /\ UNCHANGED <<mJobs, mMutex, mNumPendingJobs, mRunning, workerPc, jobData, jobState,
                   atStop, executions, dequeuedBy>>
    /\ UNCHANGED <<tgVars, seqVars, parVars, fnVars, evVars, spVars, tkVars>>

WaitReturnsAt(pending) == ~(pending > 0)

Wait ==
    /\ mainPc = "waiting"
    /\ WaitReturnsAt(mNumPendingJobs)
    /\ mainPc' = "waited"
    /\ UNCHANGED <<mJobs, mMutex, mNumPendingJobs, mRunning, workerPc, jobData, jobState, waitingFor,
                   atStop, executions, dequeuedBy>>
    /\ UNCHANGED <<tgVars, seqVars, parVars, fnVars, evVars, spVars, tkVars>>

Destroy ==
    /\ MainFree
    /\ mRunning
    /\ mRunning' = FALSE
    /\ atStop' = jobState
    /\ mainPc' = "joining"
    /\ UNCHANGED <<mJobs, mMutex, mNumPendingJobs, workerPc, jobData, jobState, waitingFor,
                   executions, dequeuedBy>>
    /\ UNCHANGED <<tgVars, seqVars, parVars, fnVars, evVars, spVars, tkVars>>

JoinedAlways(t) == TRUE

(* thread.join() returns once the worker's loop has ended. *)
Joined(t) == workerPc[t] = "exited"

Join ==
    /\ mainPc = "joining"
    /\ \A t \in Workers : Joined(t)
    /\ mainPc' = "destroyed"
    /\ UNCHANGED <<mJobs, mMutex, mNumPendingJobs, mRunning, workerPc, jobData, jobState, waitingFor,
                   atStop, executions, dequeuedBy>>
    /\ UNCHANGED <<tgVars, seqVars, parVars, fnVars, evVars, spVars, tkVars>>

(***************************************************************************)
(* Function<R(Args...)>: a free function pointer, or an instance pointer   *)
(* with a member function pointer.  A pointer is nullptr or the one-       *)
(* element tuple of the number of the thing it points to.  lastBind is the *)
(* binding that the most recent constructor or Bind call asked for,        *)
(* prevKind the kind of the binding before it, called the target that the  *)
(* most recent operator() reached, and dispatched the set of               *)
(* <<prevKind, kind>> pairs under which operator() has been called.        *)
(***************************************************************************)
nullptr == <<>>

FunctionPtrs == {<<k>> : k \in 1..NumFunctions} \cup {nullptr}

InstancePtrs == {<<k>> : k \in 1..NumInstances} \cup {nullptr}

MemberPtrs == {<<k>> : k \in 1..NumMethods} \cup {nullptr}

Target(kind, function, instance, method) ==
    [kind |-> kind, function |-> function, instance |-> instance, method |-> method]

NoTarget == Target("none", nullptr, nullptr, nullptr)

Fault == Target("fault", nullptr, nullptr, nullptr)

StaticTarget(function) == Target("static", function, nullptr, nullptr)

MemberTarget(instance, method) == Target("member", nullptr, instance, method)

Valid(b) ==
    \/ b.kind = "static" /\ b.function # nullptr
    \/ b.kind = "member" /\ b.instance # nullptr /\ b.method # nullptr

Callable(member, function, instance) ==
    [mMemberFunction |-> member, mFunction |-> function, mInstance |-> instance]

FnInit ==
    /\ callable = Callable(nullptr, nullptr, nullptr)
    /\ lastBind = NoTarget
    /\ prevKind = "none"
    /\ called = NoTarget
    /\ dispatched = {}

(* Function() *)
Construct ==
    /\ callable' = Callable(nullptr, nullptr, nullptr)
    /\ lastBind' = NoTarget
    /\ prevKind' = "none"
    /\ called' = NoTarget
    /\ UNCHANGED dispatched
    /\ UNCHANGED <<tgVars, seqVars, parVars, jsVars, evVars, spVars, tkVars>>

(* Function(FunctionPtrStatic function) *)
ConstructStatic(function) ==
    /\ callable' = Callable(nullptr, function, nullptr)
    /\ lastBind' = StaticTarget(function)
    /\ prevKind' = "none"
    /\ called' = NoTarget
    /\ UNCHANGED dispatched
    /\ UNCHANGED <<tgVars, seqVars, parVars, jsVars, evVars, spVars, tkVars>>

(* Function(C* instance, FunctionPtrMember<C> function): the initialiser   *)
(* list leaves mFunction out, so the member holds an indeterminate value.  *)
ConstructMember(instance, method) ==
    /\ \E indeterminate \in FunctionPtrs :
          callable' = Callable(method, indeterminate, instance)
    /\ lastBind' = MemberTarget(instance, method)
    /\ prevKind' = "none"
    /\ called' = NoTarget
    /\ UNCHANGED dispatched
    /\ UNCHANGED <<tgVars, seqVars, parVars, jsVars, evVars, spVars, tkVars>>

BindKeepingInstance(f, function) == [f EXCEPT !.mFunction = function]

(* Bind(FunctionPtrStatic function) *)
Bind(f, function) == [f EXCEPT !.mFunction = function, !.mInstance = nullptr]

(* Bind(C* instance, FunctionPtrMember<C> function) *)
BindMember(f, instance, method) ==
    [f EXCEPT !.mMemberFunction = method, !.mInstance = instance]

BindStaticCall(function) ==
    /\ callable' = Bind(callable, function)
    /\ lastBind' = StaticTarget(function)
    /\ prevKind' = lastBind.kind
    /\ called' = NoTarget
    /\ UNCHANGED dispatched
    /\ UNCHANGED <<tgVars, seqVars, parVars, jsVars, evVars, spVars, tkVars>>

BindMemberCall(instance, method) ==
    /\ callable' = BindMember(callable, instance, method)
    /\ lastBind' = MemberTarget(instance, method)
    /\ prevKind' = lastBind.kind
    /\ called' = NoTarget
    /\ UNCHANGED dispatched
    /\ UNCHANGED <<tgVars, seqVars, parVars, jsVars, evVars, spVars, tkVars>>

IsMember(f) == f.mInstance # nullptr

IsStatic(f) == f.mInstance = nullptr

OperatorBool(f) == f.mFunction # nullptr /\ f.mInstance # nullptr

InvokeFunctionFirst(f) ==
    IF f.mFunction # nullptr THEN StaticTarget(f.mFunction)
    ELSE IF f.mInstance = nullptr \/ f.mMemberFunction = nullptr THEN Fault
    ELSE MemberTarget(f.mInstance, f.mMemberFunction)

(* operator(): a call through a null pointer is a fault. *)
Invoke(f) ==
    IF f.mInstance # nullptr
    THEN IF f.mMemberFunction = nullptr THEN Fault
         ELSE MemberTarget(f.mInstance, f.mMemberFunction)
    ELSE IF f.mFunction = nullptr THEN Fault
         ELSE StaticTarget(f.mFunction)

InvokeCall ==
    /\ called' = Invoke(callable)
    /\ dispatched' = dispatched \cup {<<prevKind, lastBind.kind>>}
    /\ UNCHANGED <<callable, lastBind, prevKind>>
    /\ UNCHANGED <<tgVars, seqVars, parVars, jsVars, evVars, spVars, tkVars>>

(***************************************************************************)
(* EventDispatcher<E, T>: per event type a vector of subscribed Function   *)
(* objects, and a queue of (event type, data) pairs.  Subscribers are      *)
(* validly bound callables: free functions, and instance/method pairs made *)
(* by the member constructor (whose mFunction is indeterminate).  invoked  *)
(* is the sequence of calls that the most recent operation made, lastOp    *)
(* that operation with its arguments and the queue it started from.        *)
(***************************************************************************)
Events == 1..NumEvents

Subscribers ==
    {Callable(nullptr, <<k>>, nullptr) : k \in 1..NumFunctions}
        \cup {Callable(<<1>>, indeterminate, <<i>>) :
                 i \in 1..NumInstances, indeterminate \in {nullptr, <<1>>}}

Operation(op, event, data, queue) ==
    [op |-> op, event |-> event, data |-> data, queue |-> queue]

NoOperation == Operation("none", 0, 0, <<>>)

(* What the subscribers do to the dispatcher while they are being called:  *)
(* a script gives, for each successive subscriber call of one operation,   *)
(* the events that call passes to QueueEvent; calls past its end queue     *)
(* nothing.                                                                *)
Reactions == {<<>>} \cup {<<<<e, d>>>> : e \in Events, d \in DataValues}

Scripts ==
    {script \in UNION {[1..n -> Reactions] : n \in 0..MaxReactions} :
        script = <<>> \/ Last(script) # <<>>}

Reentry(queued, drained) == [queued |-> queued, drained |-> drained]

EvInit ==
    /\ mEventSubscribers = <<>>
    /\ mEventQueue = <<>>
    /\ invoked = <<>>
    /\ lastOp = NoOperation
    /\ reentry = Reentry(<<>>, <<>>)

(* mEventSubscribers[eventType]: operator[] makes an empty vector for a    *)
(* key that is not in the map.                                             *)
SubscribersOf(map, event) == IF event \in DOMAIN map THEN map[event] ELSE <<>>

PutSubscribers(map, event, subs) ==
    [k \in DOMAIN map \cup {event} |-> IF k = event THEN subs ELSE map[k]]

SubscriptionCount(map) == SumOver([k \in DOMAIN map |-> Len(map[k])], DOMAIN map)

Subscribe(eventType, eventFn) ==
    /\ SubscriptionCount(mEventSubscribers) < MaxSubscribers
    /\ mEventSubscribers' =
          PutSubscribers(mEventSubscribers, eventType,
                         Append(SubscribersOf(mEventSubscribers, eventType), eventFn))
    /\ invoked' = <<>>
    /\ lastOp' = Operation("Subscribe", eventType, 0, mEventQueue)
    /\ reentry' = Reentry(<<>>, <<>>)
    /\ UNCHANGED mEventQueue
    /\ UNCHANGED <<tgVars, seqVars, parVars, jsVars, fnVars, spVars, tkVars>>

(* subs[i] == eventFn: Function declares no operator==, so both operands   *)
(* are converted by operator bool and the two booleans are compared.       *)
FunctionEquals(a, b) == OperatorBool(a) = OperatorBool(b)

Erase(subs, i) == SubSeq(subs, 1, i - 1) \o SubSeq(subs, i + 1, Len(subs))

EraseFirstEqual(subs, eventFn) ==
    IF \E i \in DOMAIN subs : FunctionEquals(subs[i], eventFn)
    THEN Erase(subs, CHOOSE i \in DOMAIN subs :
                        /\ FunctionEquals(subs[i], eventFn)
                        /\ \A k \in 1..(i - 1) : ~FunctionEquals(subs[k], eventFn))
    ELSE subs

Unsubscribe(eventType, eventFn) ==
    /\ mEventSubscribers' =
          PutSubscribers(mEventSubscribers, eventType,
                         EraseFirstEqual(SubscribersOf(mEventSubscribers, eventType), eventFn))
    /\ invoked' = <<>>
    /\ lastOp' = Operation("Unsubscribe", eventType, 0, mEventQueue)
    /\ reentry' = Reentry(<<>>, <<>>)
    /\ UNCHANGED mEventQueue
    /\ UNCHANGED <<tgVars, seqVars, parVars, jsVars, fnVars, spVars, tkVars>>

Invocation(eventFn, eventType, data) ==
    [target |-> Invoke(eventFn), event |-> eventType, data |-> data]

DispatchCallsReversed(map, eventType, data) ==
    IF eventType \notin DOMAIN map THEN <<>>
    ELSE [i \in DOMAIN map[eventType] |->
             Invocation(map[eventType][Len(map[eventType]) + 1 - i], eventType, data)]

(* The calls of Dispatch(eventType, data): none when find() misses,        *)
(* otherwise one per element of the vector, front to back.                 *)
DispatchCalls(map, eventType, data) ==
    IF eventType \notin DOMAIN map THEN <<>>
    ELSE [i \in DOMAIN map[eventType] |-> Invocation(map[eventType][i], eventType, data)]

Dispatching(calls, queue, script, queued, drained) ==
    [calls |-> calls, queue |-> queue, script |-> script, queued |-> queued,
     drained |-> drained]

RECURSIVE Pushed(_, _)
Pushed(script, n) ==
    IF n = 0 \/ script = <<>> THEN <<>> ELSE Head(script) \o Pushed(Tail(script), n - 1)

(* One Dispatch inside a run s: the subscriber calls, and the events those *)
(* calls push to the back of mEventQueue.                                  *)
DispatchStep(map, eventType, data, s) ==
    LET calls == DispatchCalls(map, eventType, data)
        pushed == Pushed(s.script, Len(calls))
    IN  [s EXCEPT !.calls = @ \o calls, !.queue = @ \o pushed, !.queued = @ \o pushed,
                  !.script = SubSeq(@, Len(calls) + 1, Len(@))]

Dispatch(eventType, data) ==
    /\ \E script \in Scripts :
          LET s == DispatchStep(mEventSubscribers, eventType, data,
                                Dispatching(<<>>, mEventQueue, script, <<>>, <<>>))
          IN /\ Len(s.queue) <= MaxQueued
             /\ invoked' = s.calls
             /\ mEventQueue' = s.queue
             /\ reentry' = Reentry(s.queued, <<>>)
    /\ lastOp' = Operation("Dispatch", eventType, data, mEventQueue)
    /\ UNCHANGED mEventSubscribers
    /\ UNCHANGED <<tgVars, seqVars, parVars, jsVars, fnVars, spVars, tkVars>>

QueueEvent(eventType, data) ==
    /\ Len(mEventQueue) < MaxQueued
    /\ mEventQueue' = Append(mEventQueue, <<eventType, data>>)
    /\ invoked' = <<>>
    /\ lastOp' = Operation("QueueEvent", eventType, data, mEventQueue)
    /\ reentry' = Reentry(<<>>, <<>>)
    /\ UNCHANGED mEventSubscribers
    /\ UNCHANGED <<tgVars, seqVars, parVars, jsVars, fnVars, spVars, tkVars>>

RECURSIVE Drain(_, _)

DrainSnapshot(map, s) ==
    IF Len(s.queue) = Len(s.queued) THEN s
    ELSE LET event == Head(s.queue)
             after == DispatchStep(map, event[1], event[2], s)
         IN  Drain(map, [after EXCEPT !.queue = Tail(@), !.drained = Append(@, event)])

DrainNewestFirst(map, s) ==
    IF s.queue = <<>> THEN s
    ELSE LET event == Last(s.queue)
             after == DispatchStep(map, event[1], event[2],
                                   [s EXCEPT !.queue = SubSeq(@, 1, Len(@) - 1)])
         IN  Drain(map, [after EXCEPT !.drained = Append(@, event)])

(* while (!mEventQueue.empty()): Dispatch the front event, which stays at  *)
(* the front while its subscribers run, then pop it.                       *)
Drain(map, s) ==
    IF s.queue = <<>> THEN s
    ELSE LET event == Head(s.queue)
             after == DispatchStep(map, event[1], event[2], s)
         IN  Drain(map, [after EXCEPT !.queue = Tail(@), !.drained = Append(@, event)])

DispatchQueuedEvents ==
    /\ \E script \in Scripts :
          LET s == Drain(mEventSubscribers,
                         Dispatching(<<>>, mEventQueue, script, <<>>, <<>>))
          IN /\ invoked' = s.calls
             /\ mEventQueue' = s.queue
             /\ reentry' = Reentry(s.queued, s.drained)
    /\ lastOp' = Operation("DispatchQueuedEvents", 0, 0, mEventQueue)
    /\ UNCHANGED mEventSubscribers
    /\ UNCHANGED <<tgVars, seqVars, parVars, jsVars, fnVars, spVars, tkVars>>

(***************************************************************************)
(* SharedPointer (src/SharedPointer.h 168-394): a handle holds mData, the  *)
(* address of a block whose first four bytes are the reference count.  A   *)
(* block is identified by the object constructed in it.                    *)
(***************************************************************************)
Handles == 1..NumHandles

Objects == 1..NumObjects

Heap(counts, constructed, destructions, faulted) ==
    [ReferenceCount |-> counts, constructed |-> constructed,
     destructions |-> destructions, faulted |-> faulted]

SpInit ==
    /\ handles = {}
    /\ mData = [this \in Handles |-> nullptr]
    /\ heap = Heap([o \in Objects |-> 0], {}, [o \in Objects |-> 0], FALSE)
    /\ lastAssign = [op |-> "none", this |-> 0, other |-> 0]

CreateSharedPointer(o, h) ==
    [h EXCEPT !.ReferenceCount[o] = 1, !.constructed = @ \cup {o}]

use_count(this) == heap.ReferenceCount[mData[this][1]]

AddReference(data, h) ==
    IF data = nullptr
    THEN h
    ELSE [h EXCEPT !.ReferenceCount[data[1]] = @ + 1]

(* Line 371 binds a reference to *GetReferenceData() before the null test  *)
(* of line 373: on a null handle that is a reference bound through a null  *)
(* pointer, which a build either never touches (the test returns) or traps *)
(* on.  Each outcome is a heap.                                            *)
RemoveReferenceKeepingObject(data, h) ==
    IF data = nullptr
    THEN {h, [h EXCEPT !.faulted = TRUE]}
    ELSE {[h EXCEPT !.ReferenceCount[data[1]] = @ - 1]}

RemoveReference(data, h) ==
    IF data = nullptr
    THEN {h, [h EXCEPT !.faulted = TRUE]}
    ELSE LET o == data[1]
             referenceCount == h.ReferenceCount[o] - 1
             decremented == [h EXCEPT !.ReferenceCount[o] = referenceCount]
         IN  {IF referenceCount = 0
              THEN [decremented EXCEPT !.destructions[o] = @ + 1]
              ELSE decremented}

Outcome(m, h) == [mData |-> m, heap |-> h]

CopyConstructor(this, other, m, h) ==
    Outcome([m EXCEPT ![this] = m[other]], AddReference(m[other], h))

MoveConstructor(this, other, m, h) ==
    Outcome([m EXCEPT ![this] = m[other], ![other] = nullptr], h)

CopyAssignmentUnguarded(this, other, m, h) ==
    {IF r.faulted
     THEN Outcome(m, r)
     ELSE Outcome([m EXCEPT ![this] = m[other]], AddReference(m[other], r)) :
     r \in RemoveReference(m[this], h)}

CopyAssignment(this, other, m, h) ==
    IF this # other
    THEN {IF r.faulted
          THEN Outcome(m, r)
          ELSE Outcome([m EXCEPT ![this] = m[other]], AddReference(m[other], r)) :
          r \in RemoveReference(m[this], h)}
    ELSE {Outcome(m, h)}

MoveAssignment(this, other, m, h) ==
    IF this # other
    THEN {IF r.faulted
          THEN Outcome(m, r)
          ELSE Outcome([m EXCEPT ![this] = m[other], ![other] = nullptr], r) :
          r \in RemoveReference(m[this], h)}
    ELSE {Outcome(m, h)}

reset(this, m, h) ==
    {IF r.faulted THEN Outcome(m, r) ELSE Outcome([m EXCEPT ![this] = nullptr], r) :
     r \in RemoveReference(m[this], h)}

Create(this, o) ==
    /\ ~heap.faulted
    /\ this \notin handles
    /\ o \notin heap.constructed
    /\ handles' = handles \cup {this}
    /\ mData' = [mData EXCEPT ![this] = <<o>>]
    /\ heap' = CreateSharedPointer(o, heap)
    /\ UNCHANGED lastAssign
    /\ UNCHANGED <<tgVars, seqVars, parVars, jsVars, fnVars, evVars, tkVars>>

ConstructNull(this) ==
    /\ ~heap.faulted
    /\ this \notin handles
    /\ handles' = handles \cup {this}
    /\ mData' = [mData EXCEPT ![this] = nullptr]
    /\ UNCHANGED <<heap, lastAssign>>
    /\ UNCHANGED <<tgVars, seqVars, parVars, jsVars, fnVars, evVars, tkVars>>

CopyConstruct(this, other) ==
    /\ ~heap.faulted
    /\ this \notin handles
    /\ other \in handles
    /\ handles' = handles \cup {this}
    /\ mData' = CopyConstructor(this, other, mData, heap).mData
    /\ heap' = CopyConstructor(this, other, mData, heap).heap
    /\ UNCHANGED lastAssign
    /\ UNCHANGED <<tgVars, seqVars, parVars, jsVars, fnVars, evVars, tkVars>>

MoveConstruct(this, other) ==
    /\ ~heap.faulted
    /\ this \notin handles
    /\ other \in handles
    /\ handles' = handles \cup {this}
    /\ mData' = MoveConstructor(this, other, mData, heap).mData
    /\ heap' = MoveConstructor(this, other, mData, heap).heap
    /\ UNCHANGED lastAssign
    /\ UNCHANGED <<tgVars, seqVars, parVars, jsVars, fnVars, evVars, tkVars>>

CopyAssign(this, other) ==
    /\ ~heap.faulted
    /\ this \in handles
    /\ other \in handles
    /\ \E out \in CopyAssignment(this, other, mData, heap) :
          /\ mData' = out.mData
          /\ heap' = out.heap
    /\ lastAssign' = [op |-> "copy", this |-> this, other |-> other]
    /\ UNCHANGED handles
    /\ UNCHANGED <<tgVars, seqVars, parVars, jsVars, fnVars, evVars, tkVars>>

MoveAssign(this, other) ==
    /\ ~heap.faulted
    /\ this \in handles
    /\ other \in handles
    /\ \E out \in MoveAssignment(this, other, mData, heap) :
          /\ mData' = out.mData
          /\ heap' = out.heap
    /\ lastAssign' = [op |-> "move", this |-> this, other |-> other]
    /\ UNCHANGED handles
    /\ UNCHANGED <<tgVars, seqVars, parVars, jsVars, fnVars, evVars, tkVars>>

AssignNull(this) ==
    /\ ~heap.faulted
    /\ this \in handles
    /\ \E out \in reset(this, mData, heap) :
          /\ mData' = out.mData
          /\ heap' = out.heap
    /\ lastAssign' = [op |-> "nullptr", this |-> this, other |-> this]
    /\ UNCHANGED handles
    /\ UNCHANGED <<tgVars, seqVars, parVars, jsVars, fnVars, evVars, tkVars>>

Reset(this) ==
    /\ ~heap.faulted
    /\ this \in handles
    /\ \E out \in reset(this, mData, heap) :
          /\ mData' = out.mData
          /\ heap' = out.heap
    /\ UNCHANGED <<handles, lastAssign>>
    /\ UNCHANGED <<tgVars, seqVars, parVars, jsVars, fnVars, evVars, tkVars>>

DestroyHandle(this) ==
    /\ ~heap.faulted
    /\ this \in handles
    /\ \E r \in RemoveReference(mData[this], heap) :
          /\ heap' = r
          /\ handles' = IF r.faulted THEN handles ELSE handles \ {this}
    /\ mData' = [mData EXCEPT ![this] = nullptr]
    /\ UNCHANGED lastAssign
    /\ UNCHANGED <<tgVars, seqVars, parVars, jsVars, fnVars, evVars, tkVars>>

(***************************************************************************)
(* Task::AddDependency (src/TaskGraph.h 9-81).  Names are numbered         *)
(* strings; hasher is std::hash<std::string>, a function from names to     *)
(* 64-bit values that is not the identity.  byName is a Task driven by both *)
(* overloads, byHash the same Task driven by the identifier overload only. *)
(***************************************************************************)
Names == 1..NumNames

hasher(name) == ((name * 5) % 7) + 10

HashValues == {hasher(name) : name \in Names} \cup Names

NamedTask(name) == [mName |-> name, mHash |-> hasher(name), mDependencies |-> {}]

GetHash(t) == t.mHash

AddDependency(t, hash) == [t EXCEPT !.mDependencies = @ \cup {hash}]

AddDependencyUnhashed(t, name) == [t EXCEPT !.mDependencies = @ \cup {name}]

AddDependencyByName(t, name) == [t EXCEPT !.mDependencies = @ \cup {hasher(name)}]

TkInit ==
    /\ byName = NamedTask(1)
    /\ byHash = NamedTask(1)
    /\ lastAdd = [hash |-> <<>>, before |-> {}]

NewTask(name) ==
    /\ byName' = NamedTask(name)
    /\ byHash' = NamedTask(name)
    /\ lastAdd' = [hash |-> <<>>, before |-> {}]
    /\ UNCHANGED <<tgVars, seqVars, parVars, jsVars, fnVars, evVars, spVars>>

AddByName(name) ==
    /\ byName' = AddDependencyByName(byName, name)
    /\ byHash' = AddDependency(byHash, GetHash(NamedTask(name)))
    /\ lastAdd' = [hash |-> <<GetHash(NamedTask(name))>>, before |-> byName.mDependencies]
    /\ UNCHANGED <<tgVars, seqVars, parVars, jsVars, fnVars, evVars, spVars>>

AddByHash(hash) ==
    /\ byName' = AddDependency(byName, hash)
    /\ byHash' = AddDependency(byHash, hash)
    /\ lastAdd' = [hash |-> <<hash>>, before |-> byName.mDependencies]
    /\ UNCHANGED <<tgVars, seqVars, parVars, jsVars, fnVars, evVars, spVars>>

(***************************************************************************)
(* Specifications                                                          *)
(***************************************************************************)
Init == TgInit /\ JsInit /\ FnInit /\ EvInit /\ SpInit /\ TkInit

Next ==
    \/ \E task \in TaskValues : AddTask(task)
    \/ BuildGraph
    \/ ExecuteGraph

Spec == Init /\ [][Next]_vars

ParNext ==
    \/ \E task \in TaskValues : AddTask(task)
    \/ BuildGraph
    \/ RunParallel
    \/ \E t \in Workers : NextNode(t)
    \/ \E t \in Workers : VisitLeaf(t)
    \/ \E t \in Workers : StartTask(t)
    \/ \E t \in Workers : FinishTask(t)
    \/ \E t \in Workers : MarkExecuted(t)
    \/ \E t \in Workers : RaceFault(t)

ParSpec == Init /\ [][ParNext]_vars

JobNext ==
    \/ \E t \in Workers : WorkerWhile(t)
    \/ \E t \in Workers : WorkerLock(t)
    \/ \E t \in Workers : WorkerFront(t)
    \/ \E t \in Workers : WorkerPop(t)
    \/ \E t \in Workers : WorkerRun(t)
    \/ \E t \in Workers : WorkerDecrement(t)
    \/ AddJobLock
    \/ AddJob
    \/ WaitCall
    \/ Wait
    \/ Destroy
    \/ Join

JobSpec == Init /\ [][JobNext]_vars

(* Fair scheduling of the worker threads and of the calling thread inside  *)
(* AddJob, Wait and the destructor's joins; jobs terminate.                *)
JobFairness ==
    /\ \A t \in Workers :
          /\ WF_vars(WorkerWhile(t))
          /\ WF_vars(WorkerLock(t))
          /\ WF_vars(WorkerFront(t))
          /\ WF_vars(WorkerPop(t))
          /\ WF_vars(WorkerRun(t))
          /\ WF_vars(WorkerDecrement(t))
    /\ WF_vars(AddJob)
    /\ WF_vars(Wait)
    /\ WF_vars(Join)

JobFairSpec == JobSpec /\ JobFairness

FnNext ==
    \/ Construct
    \/ \E function \in FunctionPtrs : ConstructStatic(function)
    \/ \E instance \in InstancePtrs, method \in MemberPtrs : ConstructMember(instance, method)
    \/ \E function \in FunctionPtrs : BindStaticCall(function)
    \/ \E instance \in InstancePtrs, method \in MemberPtrs : BindMemberCall(instance, method)
    \/ InvokeCall

FnSpec == Init /\ [][FnNext]_vars

EvNext ==
    \/ \E eventType \in Events, eventFn \in Subscribers : Subscribe(eventType, eventFn)
    \/ \E eventType \in Events, eventFn \in Subscribers : Unsubscribe(eventType, eventFn)
    \/ \E eventType \in Events, data \in DataValues : Dispatch(eventType, data)
    \/ \E eventType \in Events, data \in DataValues : QueueEvent(eventType, data)
    \/ DispatchQueuedEvents

EvSpec == Init /\ [][EvNext]_vars

PtrNext ==
    \/ \E this \in Handles, o \in Objects : Create(this, o)
    \/ \E this \in Handles : ConstructNull(this)
    \/ \E this \in Handles, other \in Handles : CopyConstruct(this, other)
    \/ \E this \in Handles, other \in Handles : MoveConstruct(this, other)
    \/ \E this \in Handles, other \in Handles : CopyAssign(this, other)
    \/ \E this \in Handles, other \in Handles : MoveAssign(this, other)
    \/ \E this \in Handles : AssignNull(this)
    \/ \E this \in Handles : Reset(this)
    \/ \E this \in Handles : DestroyHandle(this)

PtrSpec == Init /\ [][PtrNext]_vars

TaskNext ==
    \/ \E name \in Names : NewTask(name)
    \/ \E name \in Names : AddByName(name)
    \/ \E hash \in HashValues : AddByHash(hash)

TaskSpec == Init /\ [][TaskNext]_vars

(***************************************************************************)
(* Properties of the dependency structure                                  *)
(***************************************************************************)
DependenciesOf(tasks, S) == UNION {tasks[h].mDependencies : h \in S \cap DOMAIN tasks}

RECURSIVE Closure(_, _, _)
Closure(tasks, S, n) ==
    IF n = 0 THEN S ELSE Closure(tasks, S \cup DependenciesOf(tasks, S), n - 1)

TransitiveDependencies(tasks, h) == Closure(tasks, DependenciesOf(tasks, {h}), NumIds)

Acyclic(tasks) == \A h \in DOMAIN tasks : h \notin TransitiveDependencies(tasks, h)

DepsRegistered(tasks) == AllDependencies(tasks) \subseteq DOMAIN tasks

WellFormed(tasks) == Acyclic(tasks) /\ DepsRegistered(tasks)

Dependents(tasks, d) == {h \in DOMAIN tasks : d \in tasks[h].mDependencies}

LastRun == SubSeq(trace, runStart + 1, Len(trace))

NoDuplicates(s) == \A i, j \in DOMAIN s : i # j => s[i] # s[j]

FirstBuildAndRun ==
    /\ hist = <<"Build", "Run">>
    /\ lateTasks = 0
    /\ WellFormed(mTasks)

(* C1: for an acyclic task set whose dependencies are all registered, one  *)
(* BuildGraph followed by one sequential ExecuteGraph executes every       *)
(* registered task exactly once (shared dependencies included).            *)
C1_ExactlyOnceSequential ==
    FirstBuildAndRun => (~crashed /\ \A h \in DOMAIN mTasks : CountIn(trace, h) = 1)

C1_Witness ==
    /\ FirstBuildAndRun
    /\ \E d \in DOMAIN mTasks :
        /\ Cardinality(Dependents(mTasks, d)) >= 2
        /\ CountIn(trace, d) = 1

(* C3: in a sequential run every task is invoked only after each of its    *)
(* dependencies has been invoked and has returned; tasks run one at a time *)
(* on the calling thread, so "earlier in the trace" is "finished before".  *)
C3_DependenciesFirst ==
    \A p \in DOMAIN trace :
        \A m \in mTasks[trace[p]].mDependencies :
            \E q \in 1..(p - 1) : trace[q] = m

C3_Witness ==
    /\ FirstBuildAndRun
    /\ Len(trace) = 3
    /\ trace[2] \in mTasks[trace[3]].mDependencies
    /\ trace[1] \in mTasks[trace[2]].mDependencies
    /\ mTopNodes = <<trace[3]>>

(* C6 (as claimed): a BuildGraph called while some registered task names   *)
(* an unregistered dependency reports MissingDependency.                   *)
C6_MissingDependencyRejected ==
    [][(hist' = Append(hist, "Build") /\ ~DepsRegistered(mTasks))
          => buildResult' = "MissingDependency"]_vars

GraphClosed(graph) ==
    \A h \in DOMAIN graph : Range(graph[h].Leaves) \subseteq DOMAIN graph

(* C7 (as claimed): a BuildGraph that meets an unregistered dependency     *)
(* after an earlier successful build leaves the node table, the entry-node *)
(* list and the execution markers as they were.                            *)
C7_FailedBuildKeepsGraph ==
    [][(/\ hist' = Append(hist, "Build")
        /\ "Build" \in Range(hist)
        /\ GraphClosed(mGraph)
        /\ ~DepsRegistered(mTasks))
          => UNCHANGED <<mGraph, mTopNodes, mExecutedTasks>>]_vars

(* C8 (as claimed): an ExecuteGraph that directly follows another          *)
(* ExecuteGraph of the same built graph invokes no task.                   *)
C8_SecondRunIdle ==
    (/\ Len(hist) >= 3
     /\ hist[Len(hist)] = "Run"
     /\ hist[Len(hist) - 1] = "Run"
     /\ "Build" \in Range(hist)
     /\ ~crashed)
        => LastRun = <<>>

(* C9 (as claimed): build, run, build again with the task set unchanged,   *)
(* run again: the second run invokes every task exactly once.              *)
C9_RebuildResets ==
    (/\ hist = <<"Build", "Run", "Build", "Run">>
     /\ lateTasks = 0
     /\ WellFormed(mTasks)
     /\ ~crashed)
        => \A h \in DOMAIN mTasks : CountIn(LastRun, h) = 1

(* C10 (as claimed): after the first BuildGraph the entry-node list is the *)
(* set of nodes that appear in no other node's dependency list.            *)
C10_EntryNodesNoOtherDependent ==
    hist = <<"Build">> =>
        /\ NoDuplicates(mTopNodes)
        /\ Range(mTopNodes) =
              {h \in DOMAIN mGraph :
                  \A g \in DOMAIN mGraph \ {h} : h \notin Range(mGraph[g].Leaves)}

(* C10 (amended): after the first BuildGraph the entry-node list is the    *)
(* set of nodes that appear in no node's dependency list, their own        *)
(* included, each listed once.                                             *)
C10_EntryNodesNoDependent ==
    hist = <<"Build">> =>
        /\ NoDuplicates(mTopNodes)
        /\ Range(mTopNodes) =
              {h \in DOMAIN mGraph :
                  \A g \in DOMAIN mGraph : h \notin Range(mGraph[g].Leaves)}

C10_Witness ==
    /\ hist = <<"Build">>
    /\ Cardinality(DOMAIN mGraph) = 3
    /\ Len(mTopNodes) = 1
    /\ mGraph[mTopNodes[1]].LeafCount = 2
    /\ WellFormed(mTasks)

FirstParallelRun ==
    /\ hist = <<"Build", "Par">>
    /\ lateTasks = 0
    /\ WellFormed(mTasks)

(* C2 (as claimed): when entry-node visits run concurrently on different   *)
(* threads and reach the same dependency, that dependency's task is        *)
(* invoked at most once during the run, and exactly once when the run has  *)
(* completed.                                                              *)
C2_SharedDependencyOnce ==
    FirstParallelRun =>
        \A d \in DOMAIN mTasks :
            Cardinality(Dependents(mTasks, d)) >= 2 =>
                /\ started[d] <= 1
                /\ (Quiescent /\ ~crashed) => started[d] = 1

HasFinished(m) == \E u \in Workers : finished[u][m] >= 1

C5_WaitCoversSubmitted ==
    mainPc = "waited" => \A j \in waitingFor : jobState[j] = "done"

(* C11 (as claimed): after any number of BuildGraph calls, with or without *)
(* AddTask calls in between, the entry-node list holds no node twice,      *)
(* holds no node that is a dependency of another node, and holds every     *)
(* node that no node depends on.                                           *)
C11_EntryNodesRecomputed ==
    ("Build" \in Range(hist) /\ ~crashed) =>
        /\ NoDuplicates(mTopNodes)
        /\ \A h \in Range(mTopNodes) :
              \A g \in DOMAIN mGraph \ {h} : h \notin Range(mGraph[g].Leaves)
        /\ \A h \in DOMAIN mGraph :
              (\A g \in DOMAIN mGraph : h \notin Range(mGraph[g].Leaves))
                  => h \in Range(mTopNodes)

(* C12 (as claimed): AddTask with a task whose identifier is already in    *)
(* the task table replaces the prior entry: after the call the table holds *)
(* the task that was passed.                                               *)
C12_AddTaskLastWriteWins ==
    [][\A task \in TaskValues : AddTask(task) => mTasks'[task.mHash] = task]_vars

Executing == {t \in Workers : workerPc[t] \in {"run", "dec"}}

(* C13 (as claimed): in every reachable state of the pool the count that   *)
(* GetNumPendingJobs reports equals the number of queued jobs plus the     *)
(* number of jobs being executed.                                          *)
C13_PendingCountsQueuedAndExecuting ==
    mNumPendingJobs = Len(mJobs) + Cardinality(Executing)

(* C14 (as claimed): once the destructor has cleared mRunning, no job that *)
(* was still queued at that moment is ever started.                        *)
C14_QueuedAtStopNeverStarted ==
    ~mRunning => \A j \in Jobs : atStop[j] = "queued" => jobState[j] = "queued"

(* C15: the destructor returns only after every job that was executing     *)
(* when mRunning was cleared has run to completion and every worker thread *)
(* has exited.                                                             *)
C15_DestroyWaitsForRunningJobs ==
    mainPc = "destroyed" =>
        /\ \A t \in Workers : workerPc[t] = "exited"
        /\ \A j \in Jobs : atStop[j] = "running" => jobState[j] = "done"
        /\ \A j \in Jobs : jobState[j] # "running"

C15_Witness ==
    /\ mainPc = "destroyed"
    /\ \E j \in Jobs : atStop[j] = "running" /\ jobState[j] = "done"

Dequeued == {j \in Jobs : jobState[j] \in {"running", "done"}}

(* C16: jobs leave the queue in the order in which AddJob appended them    *)
(* (job identifiers number the AddJob calls): no job is dequeued before a  *)
(* job that was added earlier.                                             *)
C16_FifoDequeue ==
    \A x, y \in Jobs : (x < y /\ y \in Dequeued) => x \in Dequeued

C16_Witness ==
    /\ \E t, u \in Workers :
          /\ t # u
          /\ workerPc[t] = "run" /\ jobData[t] = <<1>>
          /\ workerPc[u] = "run" /\ jobData[u] = <<2>>
    /\ mJobs = <<3>>

(* C17: no worker holds the queue lock while it executes a job, so AddJob  *)
(* can take the lock while every worker is executing.                      *)
C17_NoLockWhileExecuting ==
    \A t \in Workers : workerPc[t] = "run" => t \notin mMutex

C17_Witness ==
    /\ \A t \in Workers : workerPc[t] = "run"
    /\ mainPc = "adding"
    /\ mMutex = {MainThread}

(* C18 (as claimed): the boolean conversion of a callable bound to a free  *)
(* function, by constructor or by Bind(function), reports true.            *)
C18_FreeFunctionConvertsToTrue ==
    (lastBind.kind = "static" /\ Valid(lastBind)) => OperatorBool(callable)

(* C19: after any sequence of binding operations that ends in a valid      *)
(* bind, exactly one of IsMember() and IsStatic() is true, and it is the   *)
(* one of the kind of the most recent binding.                             *)
C19_KindOfLastBinding ==
    Valid(lastBind) =>
        /\ IsMember(callable) # IsStatic(callable)
        /\ IsMember(callable) <=> lastBind.kind = "member"
        /\ IsStatic(callable) <=> lastBind.kind = "static"

C19_Witness ==
    /\ Valid(lastBind)
    /\ lastBind.kind = "static"
    /\ prevKind = "member"
    /\ callable.mMemberFunction # nullptr
    /\ IsStatic(callable)

(* C20: operator() dispatches to the target of the most recent valid       *)
(* binding, whatever was bound before it.                                  *)
C20_InvokeLastBinding ==
    (called # NoTarget /\ Valid(lastBind)) => called = lastBind

C20_Witness ==
    /\ {<<"member", "static">>, <<"static", "member">>} \subseteq dispatched
    /\ called = lastBind
    /\ lastBind.kind = "member"
    /\ prevKind = "static"
    /\ callable.mFunction # nullptr

C22_RunWritesOnlyMarkers ==
    [][hist' = Append(hist, "Run") => UNCHANGED <<mTasks, mGraph, mTopNodes>>]_vars

(* C23: no operation other than a BuildGraph (not ExecuteGraph, not        *)
(* AddTask) returns an executed node to the not-executed state.            *)
C23_MarkersNeverReset ==
    [][hist' # Append(hist, "Build") => mExecutedTasks \subseteq mExecutedTasks']_vars

C23_Witness ==
    /\ hist = <<"Build", "Run", "Run">>
    /\ lateTasks = 1
    /\ Cardinality(mExecutedTasks) >= 2
    /\ ~crashed

NodeOf(task, node) ==
    /\ node.TaskHash = task.mHash
    /\ node.Data = task.mData
    /\ node.LeafCount = Cardinality(task.mDependencies)
    /\ Len(node.Leaves) = node.LeafCount
    /\ Range(node.Leaves) = task.mDependencies

(* C27: after BuildGraph the node table holds exactly one node per task of *)
(* the task table, with the task's identifier and user data and with a     *)
(* dependency list that holds exactly the task's dependency set.           *)
C27_OneNodePerTask ==
    [][hist' = Append(hist, "Build")
          => /\ DOMAIN mGraph' = DOMAIN mTasks
             /\ \A h \in DOMAIN mTasks : NodeOf(mTasks[h], mGraph'[h])]_vars

C27_Witness ==
    /\ hist = <<"Build", "Build">>
    /\ lateTasks = 1
    /\ Cardinality(DOMAIN mGraph) = 3
    /\ \E h \in DOMAIN mGraph : mGraph[h].LeafCount = 2 /\ NodeOf(mTasks[h], mGraph[h])

(* C28 (as claimed): the boolean conversion is true for a callable bound   *)
(* to an instance and a method, by constructor or by Bind, and false for a *)
(* default-constructed one.                                                *)
C28_BoolIffBound ==
    /\ (lastBind.kind = "member" /\ Valid(lastBind)) => OperatorBool(callable)
    /\ lastBind = NoTarget => ~OperatorBool(callable)

(* C29: the job queue is only touched by a thread that holds the mutex, at *)
(* most one thread holds it, no two workers hold the same job, and no job  *)
(* is executed more than once.                                             *)
C29_DequeuedAtMostOnce ==
    /\ Cardinality(mMutex) <= 1
    /\ \A t \in Workers : workerPc[t] \in {"locked", "pop"} => mMutex = {t}
    /\ mainPc = "adding" => mMutex = {MainThread}
    /\ \A t, u \in Workers :
          (t # u /\ workerPc[t] \in {"pop", "run"} /\ workerPc[u] \in {"pop", "run"})
              => jobData[t] # jobData[u]
    /\ \A j \in Jobs : executions[j] <= 1

C29_Witness ==
    /\ \E t, u \in Workers :
          /\ workerPc[t] = "pop" /\ jobData[t] = <<3>>
          /\ workerPc[u] = "lock" /\ jobData[u] = <<2>>
    /\ executions[1] = 1
    /\ executions[2] = 1

(* C30: while the pool is alive and the threads are scheduled fairly,      *)
(* every job that AddJob has queued is eventually dequeued and executed.   *)
C30_QueuedJobEventuallyRuns ==
    \A j \in Jobs : (jobState[j] = "queued") ~> (jobState[j] = "done" \/ ~mRunning)

C30_Witness ==
    /\ mRunning
    /\ \A j \in Jobs : jobState[j] = "done" /\ executions[j] = 1
    /\ mJobs = <<>>

ExpectedCalls(eventType, data) ==
    LET subs == SubscribersOf(mEventSubscribers, eventType)
    IN [i \in DOMAIN subs |-> Invocation(subs[i], eventType, data)]

(* C24: Dispatch(e, data) calls every function subscribed to e, once per   *)
(* subscription and in subscription order, with the data it was given, and *)
(* calls nothing else; with no subscriber for e it calls nothing.          *)
C24_DispatchInvokesSubscribers ==
    lastOp.op = "Dispatch" => invoked = ExpectedCalls(lastOp.event, lastOp.data)

C24_Witness ==
    /\ lastOp.op = "Dispatch"
    /\ Len(invoked) = 2
    /\ invoked[1].target.kind = "static"
    /\ invoked[2].target.kind = "member"
    /\ \E e \in Events \ {lastOp.event} :
          /\ Len(SubscribersOf(mEventSubscribers, e)) = 1
          /\ \A i \in DOMAIN invoked : invoked[i].target # Invoke(mEventSubscribers[e][1])

(* C25 (as claimed): Unsubscribe(e, f) for a subscribed f removes one      *)
(* subscription of f from e's subscribers and leaves every other           *)
(* subscription of e in place.                                             *)
C25_UnsubscribeRemovesThatFunction ==
    [][\A e \in Events, f \in Subscribers :
          LET subs == SubscribersOf(mEventSubscribers, e)
          IN (Unsubscribe(e, f) /\ \E i \in DOMAIN subs : subs[i] = f)
                => \E i \in DOMAIN subs :
                      /\ subs[i] = f
                      /\ SubscribersOf(mEventSubscribers', e) = Erase(subs, i)]_vars

RECURSIVE QueuedCalls(_, _)
QueuedCalls(queue, k) ==
    IF k > Len(queue) THEN <<>>
    ELSE ExpectedCalls(queue[k][1], queue[k][2]) \o QueuedCalls(queue, k + 1)

(* C26: QueueEvent calls no subscriber; DispatchQueuedEvents dispatches    *)
(* every queued event once, in the order of queueing (the events that      *)
(* subscribers queue meanwhile included), and leaves the queue empty.      *)
C26_QueuedEventsDispatchedInOrder ==
    /\ lastOp.op = "QueueEvent" =>
          /\ invoked = <<>>
          /\ mEventQueue = Append(lastOp.queue, <<lastOp.event, lastOp.data>>)
    /\ lastOp.op = "DispatchQueuedEvents" =>
          /\ mEventQueue = <<>>
          /\ invoked = QueuedCalls(lastOp.queue \o reentry.queued, 1)

C26_Witness ==
    /\ lastOp.op = "DispatchQueuedEvents"
    /\ Len(lastOp.queue) = 2
    /\ lastOp.queue[1][1] # lastOp.queue[2][1]
    /\ Len(invoked) = 3
    /\ invoked[1].event = lastOp.queue[1][1]
    /\ invoked[3].event = lastOp.queue[2][1]
    /\ mEventQueue = <<>>

(* C31: with terminating jobs and fair scheduling, a Wait() that has been  *)
(* called returns (the caller submits nothing while it waits); Wait() can  *)
(* be called again after it has returned.                                  *)
C31_WaitEventuallyReturns ==
    (mainPc = "waiting") ~> (mainPc = "waited")

C31_Witness ==
    /\ mainPc = "waited"
    /\ waitingFor = Jobs
    /\ \A j \in Jobs : jobState[j] = "done"
    /\ mNumPendingJobs = 0

(* C32: the pending-job counter is the number of workers between their     *)
(* increment and their decrement: it never exceeds the number of worker    *)
(* threads and never goes below zero.                                      *)
C32_CounterWithinWorkers ==
    /\ mNumPendingJobs = Cardinality({t \in Workers : workerPc[t] \in {"pop", "run", "dec"}})
    /\ mNumPendingJobs >= 0
    /\ mNumPendingJobs <= NumWorkers

C32_Witness ==
    /\ mNumPendingJobs = NumWorkers
    /\ \A t \in Workers : workerPc[t] = "run"
    /\ mJobs # <<>>

StartedAfterStop(t) == {j \in Jobs : atStop[j] = "queued" /\ t \in dequeuedBy[j]}

(* C33: after the destructor has cleared mRunning each worker starts at    *)
(* most one further job, and with terminating jobs and fair scheduling the *)
(* destructor returns.                                                     *)
C33_AtMostOneMoreJobPerWorker ==
    /\ [](\A t \in Workers : Cardinality(StartedAfterStop(t)) <= 1)
    /\ (mainPc = "joining") ~> (mainPc = "destroyed")

C33_Witness ==
    /\ mainPc = "destroyed"
    /\ \A t \in Workers : Cardinality(StartedAfterStop(t)) = 1
    /\ \A j \in Jobs : atStop[j] = "queued" => jobState[j] = "done"

HandlesTo(o) == {this \in handles : mData[this] = <<o>>}

(* C38: for every object made by CreateSharedPointer, after any sequence   *)
(* of handle operations use_count read through a handle of the object is   *)
(* the number of live handles to it, and the object has been destroyed     *)
(* once if no handle is left and not at all otherwise.                     *)
C38_UseCountIsHandleCount ==
    \A o \in heap.constructed :
        /\ \A this \in HandlesTo(o) : use_count(this) = Cardinality(HandlesTo(o))
        /\ heap.destructions[o] = IF HandlesTo(o) = {} THEN 1 ELSE 0

C38_Witness ==
    /\ lastAssign.op = "copy"
    /\ lastAssign.this = lastAssign.other
    /\ lastAssign.this \in handles
    /\ mData[lastAssign.this] # nullptr
    /\ use_count(lastAssign.this) = 2
    /\ \E o \in heap.constructed : HandlesTo(o) = {} /\ heap.destructions[o] = 1
    /\ ~heap.faulted

(* C39: AddDependency(name) has the effect of AddDependency(identifier of  *)
(* a task constructed with that name); an add yields the earlier set plus  *)
(* the identifier, so re-adding a present identifier changes nothing.      *)
C39_AddDependencyByNameIsByHash ==
    /\ byName = byHash
    /\ lastAdd.hash # <<>> =>
          /\ byName.mDependencies = lastAdd.before \cup {lastAdd.hash[1]}
          /\ lastAdd.hash[1] \in lastAdd.before => byName.mDependencies = lastAdd.before

C39_Witness ==
    /\ lastAdd.hash # <<>>
    /\ lastAdd.hash[1] \in lastAdd.before
    /\ lastAdd.hash[1] = hasher(NumNames)
    /\ Cardinality(byName.mDependencies) >= 2
    /\ byName = byHash

NodeTasks(graph) ==
    [h \in DOMAIN graph |-> Task(h, graph[h].Data, Range(graph[h].Leaves))]

(* C34: an ExecuteGraph on a node table that is acyclic and whose leaves   *)
(* all have nodes returns: the recursion of ExecuteNode neither runs away  *)
(* nor reaches a missing node (the tasks themselves terminate).            *)
C34_AcyclicRunReturns ==
    [][(hist' = Append(hist, "Run") /\ WellFormed(NodeTasks(mGraph))) => ~crashed']_vars

C34_Witness ==
    /\ Last(<<"none">> \o hist) = "Run"
    /\ WellFormed(NodeTasks(mGraph))
    /\ \E a, b, c \in DOMAIN mGraph :
          /\ b \in Range(mGraph[a].Leaves)
          /\ c \in Range(mGraph[b].Leaves)
          /\ mExecutedTasks = {a, b, c}
    /\ LastRun # <<>>
    /\ ~crashed

EveryTaskIsADependency(tasks) ==
    /\ tasks # <<>>
    /\ \A h \in DOMAIN tasks : Dependents(tasks, h) \ {h} # {}

(* C35: when every registered task is a dependency of another registered   *)
(* task, the first BuildGraph finds no entry node and an ExecuteGraph      *)
(* after it returns without having executed any task.                      *)
C35_AllOnCyclesRunsNothing ==
    (/\ hist \in {<<"Build">>, <<"Build", "Run">>}
     /\ lateTasks = 0
     /\ EveryTaskIsADependency(mTasks))
        => (mTopNodes = <<>> /\ trace = <<>> /\ mExecutedTasks = {} /\ ~crashed)

C35_Witness ==
    /\ hist = <<"Build", "Run">>
    /\ lateTasks = 0
    /\ EveryTaskIsADependency(mTasks)
    /\ Cardinality(DOMAIN mTasks) = NumIds
    /\ DOMAIN mGraph = DOMAIN mTasks
    /\ trace = <<>>

(* C37: an AddTask after a BuildGraph leaves the node table, the entry     *)
(* nodes and the execution markers as they were, and an ExecuteGraph       *)
(* before the next BuildGraph executes no task that has no node yet.       *)
C37_LateAddTaskNotCompiled ==
    [][/\ (hist # <<>> /\ lateTasks' = lateTasks + 1)
             => UNCHANGED <<mGraph, mTopNodes, mExecutedTasks>>
       /\ hist' = Append(hist, "Run") =>
             \A h \in DOMAIN mTasks \ DOMAIN mGraph :
                 h \notin Range(SubSeq(trace', Len(trace) + 1, Len(trace')))]_vars

C37_Witness ==
    /\ hist = <<"Build", "Run">>
    /\ lateTasks = 1
    /\ DOMAIN mTasks \ DOMAIN mGraph # {}
    /\ LastRun # <<>>
    /\ Range(LastRun) = DOMAIN mGraph
    /\ ~crashed

(* C36: an event that a subscriber queues while DispatchQueuedEvents runs  *)
(* is dispatched by that same call, after every event queued before it;    *)
(* the call returns with the queue empty, once no subscriber queued more.  *)
C36_RequeuedEventsDrainedInSameCall ==
    lastOp.op = "DispatchQueuedEvents" =>
        /\ reentry.drained = lastOp.queue \o reentry.queued
        /\ mEventQueue = <<>>

C36_Witness ==
    /\ lastOp.op = "DispatchQueuedEvents"
    /\ Len(lastOp.queue) = 2
    /\ Len(reentry.queued) = 2
    /\ reentry.queued[1] # reentry.queued[2]
    /\ reentry.drained = lastOp.queue \o reentry.queued
    /\ Len(invoked) >= 4
    /\ mEventQueue = <<>>

====
